---- MODULE Spec2Model ----
(***************************************************************************)
(* Model of Portman.syncCollectionToPostman and of the PostmanService      *)
(* calls it makes (src/src/Portman.ts).  A sync uploads the generated      *)
(* collection to Postman, using the file .portman.cache to remember the    *)
(* Postman uid under the collection name.                                  *)
(*                                                                         *)
(* The Postman API and the file system are the environment: every remote   *)
(* call answers nondeterministically (success, or a failure of one of two  *)
(* kinds), and the cache file may be unwritable for a run of the tool.     *)
(***************************************************************************)
EXTENDS Integers, Sequences, FiniteSets, TLC

\* ------------------------------------------------------------------ bounds
\* Longest chain of nested syncCollectionToPostman() calls that is explored.
MaxDepth == 2
\* Longest listing returned by GET /collections.
MaxListing == 2

\* ------------------------------------------------------------ value sets
\* A name is a sequence of one-character strings.
BillingApi == <<"B", "i">>
BillingApiSpaced == <<"b", " ", "I">>
Orders == <<"o">>

\* Names of the collections the tool may be run for.
CollNames == {BillingApi, Orders}
\* Keys that may occur in a cache file: the names of the collections and a
\* spelling of the first that differs in case and spacing.
CacheKeys == {BillingApi, Orders, BillingApiSpaced}
\* NoName: no name field.
NoName == <<>>

\* Postman uids; NoUid is the JavaScript undefined.
NoUid == ""
Uids == {"abc", "def"}
Times == {1, 2}

\* ------------------------------------------------------ name normalisation
ToLowerCase(c) ==
    CASE c = "B" -> "b"
      [] c = "I" -> "i"
      [] c = "O" -> "o"
      [] OTHER -> c

IsWhitespace(c) == c \in {" ", "\t", "\n"}

LowerAll(s) == [i \in 1..Len(s) |-> ToLowerCase(s[i])]

IsNotWhitespace(c) == ~IsWhitespace(c)

\* The whitespace removed and the case kept.
NormalizeKeepCase(s) == SelectSeq(s, IsNotWhitespace)

\* name.toLowerCase().replace(/\s/g, '')
Normalize(s) == SelectSeq(LowerAll(s), IsNotWhitespace)

\* ------------------------------------------------------------ cache values
\* An entry of the cache object.  present = FALSE is the undefined that a
\* lookup of a missing key yields.
NoEntry == [present |-> FALSE, name |-> NoName, uid |-> NoUid]
NewEntry(name, uid) == [present |-> TRUE, name |-> name, uid |-> uid]

EmptyMap == [k \in CacheKeys |-> NoEntry]

\* The value of the variable portmanCache: the initial {} or whatever
\* JSON.parse returned: an object, the JSON null, or another non-object
\* value (a number or a boolean).
EmptyCache == [kind |-> "object", map |-> EmptyMap]
NullCache == [kind |-> "null", map |-> EmptyMap]
ScalarCache == [kind |-> "scalar", map |-> EmptyMap]

ObjectCaches ==
    {[kind |-> "object", map |-> m] :
        m \in {f \in [CacheKeys -> {NoEntry} \cup
                        {NewEntry(k, u) : k \in CacheKeys, u \in Uids \cup {NoUid}}] :
                    \A k \in CacheKeys : f[k].present => f[k].name = k}}

\* What .portman.cache can hold: nothing (no file or an unreadable one),
\* text that is not JSON, or a JSON value.
AbsentFile == [kind |-> "absent", map |-> EmptyMap]
GarbageFile == [kind |-> "garbage", map |-> EmptyMap]
FileContents == {AbsentFile, GarbageFile, NullCache, ScalarCache} \cup ObjectCaches

\* ------------------------------------------------------------- responses
NoError == "none"
NoResp == [status |-> "", uid |-> NoUid, error |-> NoError]
Success(uid) == [status |-> "success", uid |-> uid, error |-> NoError]
Fail(error) == [status |-> "fail", uid |-> NoUid, error |-> error]

\* "notfound": the uid does not denote a collection; "other": anything else.
Errors == {"notfound", "other"}

\* ------------------------------------------------- Portman.ts, lines 426-513
\* if (postmanUid)
OverrideGiven(puid) == puid # NoUid

\* The second branch taken whatever the options say.
CacheAssistedAlways(puid) == TRUE

\* if (!postmanUid)
CacheAssisted(puid) == puid = NoUid

\* JSON.parse(fs.readFileSync(...)) inside try/catch: a missing file and
\* text that is not JSON throw, and portmanCache keeps its initial {}.
JsonParseFile(file) ==
    IF file.kind \in {"absent", "garbage"} THEN EmptyCache ELSE file

\* portmanCache[collName] throws a TypeError when portmanCache is null.
LookupThrows(cache) == cache.kind = "null"

\* portmanCache[collName]
Lookup(cache, name) ==
    IF cache.kind = "object" THEN cache.map[name] ELSE NoEntry

\* The cache never consulted.
CacheMissAlways(cache, name) == TRUE

\* if (!portmanCache[collName])
CacheMiss(cache, name) == ~Lookup(cache, name).present

\* The value of the variable remoteCollection: a cache entry or a summary
\* of the listing, of which only the name and the uid are kept (the code
\* reads nothing else of it).
Remote(present, name, uid) == [present |-> present, name |-> name, uid |-> uid]
NoRemote == Remote(FALSE, NoName, NoUid)
FromCache(entry) == Remote(entry.present, entry.name, entry.uid)

\* if (remoteCollection?.uid)
HasUid(rc) == rc.present /\ rc.uid # NoUid

\* if (status === 'fail')
StatusFail(resp) == resp.status = "fail"

\* The cache updated whatever the status of the response.
StatusAny(resp) == TRUE

\* if (status === 'success')
StatusSuccess(resp) == resp.status = "success"

\* Every entry removed, not only that of the name.
DeleteEveryItem(cache, name) ==
    IF cache.kind = "object"
    THEN [cache EXCEPT !.map = EmptyMap]
    ELSE cache

\* delete portmanCache[collName]
DeleteItem(cache, name) ==
    IF cache.kind = "object"
    THEN [cache EXCEPT !.map[name] = NoEntry]
    ELSE cache

\* The uid read from a field the response does not have.
MergeItemNoUid(cache, name, uid) ==
    [kind |-> "object", map |-> [cache.map EXCEPT ![name] = NewEntry(name, NoUid)]]

\* Object.assign({}, portmanCache, {[collName]: {name: collName, uid: ...}})
MergeItem(cache, name, uid) ==
    [kind |-> "object", map |-> [cache.map EXCEPT ![name] = NewEntry(name, uid)]]

\* JSON.stringify(portmanCache, null, 2): an undefined uid is left out of
\* the text, which NewEntry(name, NoUid) stands for.
Stringify(cache) ==
    [kind |-> cache.kind,
     map |-> [k \in CacheKeys |->
                IF cache.map[k].present
                THEN NewEntry(cache.map[k].name, cache.map[k].uid)
                ELSE NoEntry]]

\* fs.writeFileSync inside try/catch: a failed write leaves the file alone.
WriteFile(file, text, ok) == IF ok THEN text ELSE file

\* -------------------------------------- PostmanService.findCollectionByName
Summary(uid, name, updatedAt) == [uid |-> uid, name |-> name, updatedAt |-> updatedAt]
\* The collections a listing may hold: copies of the Billing API collection
\* under a name that differs in case and spacing, and the Orders collection.
OtherSummary == Summary("xyz", Orders, 1)
Summaries == {Summary(u, BillingApiSpaced, t) : u \in Uids, t \in Times} \cup {OtherSummary}

\* The filter callback of lines 644-649.
NameMatches(o, name) ==
    /\ o.name # NoName
    /\ Normalize(o.name) = Normalize(name)

FilterMatches(collections, name) ==
    LET Keep(o) == NameMatches(o, name) IN SelectSeq(collections, Keep)

\* The operands of the subtraction swapped: oldest first.
DateCompareAscending(a, b) == a.updatedAt - b.updatedAt

\* The comparator of lines 656-662: negative when b is the older one.
DateCompare(a, b) == b.updatedAt - a.updatedAt

\* Array.prototype.sort with that comparator; the sort is stable, so an
\* element goes behind those it does not have to precede.
RECURSIVE InsertSorted(_, _)
InsertSorted(sorted, x) ==
    IF sorted = <<>> THEN <<x>>
    ELSE IF DateCompare(Head(sorted), x) <= 0
         THEN <<Head(sorted)>> \o InsertSorted(Tail(sorted), x)
         ELSE <<x>> \o sorted

RECURSIVE SortMatches(_)
SortMatches(matches) ==
    IF matches = <<>> THEN <<>>
    ELSE InsertSorted(SortMatches(SubSeq(matches, 1, Len(matches) - 1)),
                      matches[Len(matches)])

FromSummary(o) == Remote(TRUE, o.name, o.uid)

\* let match = {}: an object without a uid.
EmptyMatch == Remote(TRUE, NoName, NoUid)
\* error.toString(): a string, which has no uid either.
ErrorString == Remote(TRUE, NoName, NoUid)

\* Lines 640-671.
FindMatch(hasCollections, collections, name) ==
    LET matches == FilterMatches(collections, name) IN
    IF ~hasCollections THEN EmptyMatch
    ELSE IF Len(matches) = 1 THEN FromSummary(matches[1])
    ELSE IF Len(matches) > 1 THEN FromSummary(SortMatches(matches)[1])
    ELSE EmptyMatch

\* --------------------------------------------------------- the Postman API
\* PUT /collections/{uid} answers with the collection it updated.
UpdateResponses(uid) == {Success(uid)} \cup {Fail(e) : e \in Errors}

\* POST /collections answers with the uid of the new collection.
CreateResponses == {Success(u) : u \in Uids} \cup {Fail("other")}

RECURSIVE SeqsUpTo(_, _)
SeqsUpTo(S, n) ==
    IF n = 0 THEN {<<>>}
    ELSE SeqsUpTo(S, n - 1) \cup
         {Append(q, x) : q \in {r \in SeqsUpTo(S, n - 1) : Len(r) = n - 1}, x \in S}

Listings == SeqsUpTo(Summaries, MaxListing)

ListResponse(status, hasCollections, collections) ==
    [status |-> status, hasCollections |-> hasCollections, collections |-> collections]

\* GET /collections: a listing, a body without collections, or a failure.
ListResponses ==
    {ListResponse("success", TRUE, l) : l \in Listings}
        \cup {ListResponse("success", FALSE, <<>>), ListResponse("fail", FALSE, <<>>)}

VARIABLES
    cacheFile,          \* content of .portman.cache
    pc,                 \* position of the innermost running call
    collName,           \* portmanCollection.info.name
    postmanUid,         \* options.postmanUid (NoUid: not given)
    portmanCache,       \* local variable of the innermost call
    remoteCollection,   \* local variable of the innermost call
    respData,           \* local variable of the innermost call
    stack,              \* locals of the suspended outer calls, outermost first
    startFile,          \* content of .portman.cache when the run started
    writable,           \* whether this run of the tool can write the cache file
    lastListing,        \* data.collections of the listing being acted on
    trace,              \* file accesses, remote calls and reports so far
    lastReturned        \* per name, the uid the remote returned last (history)

vars == <<cacheFile, pc, collName, postmanUid, portmanCache, remoteCollection,
          respData, stack, startFile, writable, lastListing, trace, lastReturned>>

\* An entry of trace.  A list event carries the uid of the summary that
\* findCollectionByName returned (NoUid: none).
Event(op, uid, status, error) ==
    [op |-> op, uid |-> uid, status |-> status, error |-> error]

Frame(cache, rc, resp) ==
    [portmanCache |-> cache, remoteCollection |-> rc, respData |-> resp]

WriteEvent(ok) == Event("write", NoUid, IF ok THEN "written" ELSE "unwritten", NoError)

\* The history of the successful create and update calls over the runs of
\* the tool: for each collection name the uid that the last of them
\* returned (any), and the uid that the last of those made without
\* options.postmanUid returned (assisted).
NoReturns == [n \in CollNames |-> [any |-> NoUid, assisted |-> NoUid]]

RecordReturn(h, name, resp, override) ==
    IF resp.status = "success"
    THEN [h EXCEPT ![name] = [any |-> resp.uid,
                               assisted |-> IF override THEN @.assisted ELSE resp.uid]]
    ELSE h

Init ==
    /\ cacheFile \in FileContents
    /\ pc = "idle"
    /\ collName = BillingApi
    /\ postmanUid = NoUid
    /\ portmanCache = EmptyCache
    /\ remoteCollection = NoRemote
    /\ respData = NoResp
    /\ stack = <<>>
    /\ startFile = cacheFile
    /\ writable = TRUE
    /\ lastListing = <<>>
    /\ trace = <<>>
    /\ lastReturned = NoReturns

\* Where a call goes after its first lines (426-439).
PcAtEntry(puid) ==
    IF OverrideGiven(puid) THEN "override"
    ELSE IF CacheAssisted(puid) THEN "load" ELSE "report"

PcAfterOverride(puid) == IF CacheAssisted(puid) THEN "load" ELSE "report"

\* A run of the tool with syncPostman set enters syncCollectionToPostman.
Start(name, puid, disk) ==
    /\ pc \in {"idle", "done"}
    /\ collName' = name
    /\ postmanUid' = puid
    /\ portmanCache' = EmptyCache
    /\ remoteCollection' = NoRemote
    /\ respData' = NoResp
    /\ stack' = <<>>
    /\ startFile' = cacheFile
    /\ writable' = disk
    /\ lastListing' = <<>>
    /\ trace' = <<>>
    /\ pc' = PcAtEntry(puid)
    /\ UNCHANGED <<cacheFile, lastReturned>>

\* Lines 433-436: the update against options.postmanUid.  The history of
\* the returned uids is kept only when rec is set.
OverrideUpdate(rec) ==
    /\ pc = "override"
    /\ \E resp \in UpdateResponses(postmanUid) :
        /\ respData' = resp
        /\ trace' = Append(trace, Event("update", postmanUid, resp.status, resp.error))
        /\ lastReturned' = IF rec THEN RecordReturn(lastReturned, collName, resp, TRUE)
                           ELSE lastReturned
    /\ pc' = PcAfterOverride(postmanUid)
    /\ UNCHANGED <<cacheFile, collName, postmanUid, portmanCache, remoteCollection,
                   stack, startFile, writable, lastListing>>

\* Lines 440-448: read the cache file and look the collection name up.
LoadCache ==
    /\ pc = "load"
    /\ LET cache == JsonParseFile(cacheFile) IN
        /\ portmanCache' = cache
        /\ trace' = Append(trace, Event("read", NoUid, "", NoError))
        /\ IF LookupThrows(cache)
           THEN /\ pc' = "crashed"
                /\ UNCHANGED remoteCollection
           ELSE /\ remoteCollection' = FromCache(Lookup(cache, collName))
                /\ pc' = IF CacheMiss(cache, collName) THEN "find" ELSE "decide"
    /\ UNCHANGED <<cacheFile, collName, postmanUid, respData, stack, startFile,
                   writable, lastListing, lastReturned>>

\* Lines 449-453: await postman.findCollectionByName(collName).  The listing
\* itself is kept (for the properties of the selection) only when keep is set.
FindCollectionByName(keep) ==
    /\ pc = "find"
    /\ \E r \in ListResponses :
        LET found == IF r.status = "fail" THEN ErrorString
                     ELSE FindMatch(r.hasCollections, r.collections, collName) IN
        /\ remoteCollection' = found
        /\ lastListing' = IF keep THEN r.collections ELSE <<>>
        /\ trace' = Append(trace, Event("list", found.uid, r.status, NoError))
    /\ pc' = "decide"
    /\ UNCHANGED <<cacheFile, collName, postmanUid, portmanCache, respData, stack,
                   startFile, writable, lastReturned>>

\* Lines 455-483: update by uid, then fix the cache up and write it.
UpdateCollection(rec) ==
    /\ pc = "decide"
    /\ HasUid(remoteCollection)
    /\ \E resp \in UpdateResponses(remoteCollection.uid) :
        LET cache == IF StatusFail(resp)
                     THEN DeleteItem(portmanCache, collName)
                     ELSE MergeItem(portmanCache, collName, resp.uid) IN
        /\ respData' = resp
        /\ portmanCache' = cache
        /\ cacheFile' = WriteFile(cacheFile, Stringify(cache), writable)
        /\ trace' = trace \o
              <<Event("update", remoteCollection.uid, resp.status, resp.error),
                WriteEvent(writable)>>
        /\ lastReturned' = IF rec THEN RecordReturn(lastReturned, collName, resp, FALSE)
                           ELSE lastReturned
        /\ pc' = IF StatusFail(resp) THEN "recurse" ELSE "report"
    /\ lastListing' = <<>>
    /\ UNCHANGED <<collName, postmanUid, remoteCollection, stack, startFile, writable>>

\* Lines 485-487: await this.syncCollectionToPostman().
Recurse ==
    /\ pc = "recurse"
    /\ Len(stack) < MaxDepth
    /\ stack' = Append(stack, Frame(portmanCache, remoteCollection, respData))
    /\ portmanCache' = EmptyCache
    /\ remoteCollection' = NoRemote
    /\ respData' = NoResp
    /\ pc' = PcAtEntry(postmanUid)
    /\ UNCHANGED <<cacheFile, collName, postmanUid, startFile, writable, lastListing,
                   trace, lastReturned>>

\* Lines 489-511: create, and on success add the entry and write the cache.
CreateCollection(rec) ==
    /\ pc = "decide"
    /\ ~HasUid(remoteCollection)
    /\ \E resp \in CreateResponses :
        /\ respData' = resp
        /\ lastReturned' = IF rec THEN RecordReturn(lastReturned, collName, resp, FALSE)
                           ELSE lastReturned
        /\ IF StatusSuccess(resp)
           THEN LET cache == MergeItem(portmanCache, collName, resp.uid) IN
                /\ portmanCache' = cache
                /\ cacheFile' = WriteFile(cacheFile, Stringify(cache), writable)
                /\ trace' = trace \o
                      <<Event("create", resp.uid, resp.status, resp.error),
                        WriteEvent(writable)>>
           ELSE /\ trace' = Append(trace, Event("create", resp.uid, resp.status, resp.error))
                /\ UNCHANGED <<portmanCache, cacheFile>>
    /\ pc' = "report"
    /\ lastListing' = <<>>
    /\ UNCHANGED <<collName, postmanUid, remoteCollection, stack, startFile, writable>>

\* Lines 515-534: print the outcome from respData and return; a suspended
\* caller resumes here with its own respData.
Report ==
    /\ pc = "report"
    /\ trace' = Append(trace, Event("report", respData.uid, respData.status, respData.error))
    /\ IF stack = <<>>
       THEN /\ pc' = "done"
            /\ UNCHANGED <<portmanCache, remoteCollection, respData, stack>>
       ELSE /\ pc' = "report"
            /\ portmanCache' = stack[Len(stack)].portmanCache
            /\ remoteCollection' = stack[Len(stack)].remoteCollection
            /\ respData' = stack[Len(stack)].respData
            /\ stack' = SubSeq(stack, 1, Len(stack) - 1)
    /\ UNCHANGED <<cacheFile, collName, postmanUid, startFile, writable, lastListing,
                   lastReturned>>

Next ==
    \/ \E name \in CollNames, puid \in Uids \cup {NoUid}, disk \in BOOLEAN :
            Start(name, puid, disk)
    \/ OverrideUpdate(FALSE)
    \/ LoadCache
    \/ FindCollectionByName(FALSE)
    \/ UpdateCollection(FALSE)
    \/ Recurse
    \/ CreateCollection(FALSE)
    \/ Report

Spec == Init /\ [][Next]_vars

\* One call at a time without the restart of line 486, keeping each listing.
NextFind ==
    \/ \E name \in CollNames, disk \in BOOLEAN : Start(name, NoUid, disk)
    \/ LoadCache
    \/ FindCollectionByName(TRUE)
    \/ UpdateCollection(FALSE)
    \/ CreateCollection(FALSE)
    \/ Report

SpecFind == Init /\ [][NextFind]_vars

\* The runs of the tool that follow one another from an empty cache, with
\* the history of the returned uids.  The Billing API collection is synced
\* through the cache, with or without a writable file, and with
\* options.postmanUid; the Orders collection is synced through the cache.
InitEmpty ==
    /\ Init
    /\ cacheFile \in {AbsentFile, EmptyCache}

NextEmpty ==
    \/ \E disk \in BOOLEAN : Start(BillingApi, NoUid, disk)
    \/ Start(BillingApi, "def", TRUE)
    \/ Start(Orders, NoUid, TRUE)
    \/ OverrideUpdate(TRUE)
    \/ LoadCache
    \/ FindCollectionByName(FALSE)
    \/ UpdateCollection(TRUE)
    \/ Recurse
    \/ CreateCollection(TRUE)
    \/ Report

SpecEmpty == InitEmpty /\ [][NextEmpty]_vars

\* ============================================================== properties
IsCall(e) == e.op \in {"update", "list", "create"}
IsReport(e) == e.op = "report"

\* The remote calls, and the reports, of the run so far, in order.
Calls == SelectSeq(trace, IsCall)
Reports == SelectSeq(trace, IsReport)
CountOp(op) == Cardinality({i \in DOMAIN trace : trace[i].op = op})

\* The entry a cache file holds for a name (NoEntry if it holds none).
FileEntry(file, name) == IF file.kind = "object" THEN file.map[name] ELSE NoEntry

\* The run has no operator override and found a uid for the collection
\* name in the cache file.
WarmStart ==
    /\ postmanUid = NoUid
    /\ FileEntry(startFile, collName).present
    /\ FileEntry(startFile, collName).uid # NoUid

StartUid == FileEntry(startFile, collName).uid

\* The run has no operator override and started with an empty cache.
ColdStart == postmanUid = NoUid /\ startFile \in {AbsentFile, EmptyCache}

\* The cache file holding one entry, for the collection name, with this uid.
Populated(uid) ==
    [kind |-> "object", map |-> [EmptyMap EXCEPT ![collName] = NewEntry(collName, uid)]]

NotFoundFailure(e) == e.op = "update" /\ e.status = "fail" /\ e.error = "notfound"

\* A failed create, or an update that failed for another reason than the
\* uid not denoting a collection.
FatalFailure(e) ==
    \/ e.op = "create" /\ e.status = "fail"
    \/ e.op = "update" /\ e.status = "fail" /\ e.error # "notfound"

\* C1: a sync without operator override enters identity resolution at most
\* twice (one re-entry) and issues at most two create/update calls,
\* whatever the cache holds and the remote answers; when it started from a
\* cached uid it issues at most one list call.
C1_BoundedSelfHeal ==
    postmanUid = NoUid =>
        /\ CountOp("read") <= 2
        /\ CountOp("update") + CountOp("create") <= 2
        /\ WarmStart => CountOp("list") <= 1

\* C2: after a failed create, or an update that failed for another reason
\* than RemoteNotFound, the sync makes no further remote call, the cache
\* entry of the name is as it was loaded, and the sync reports Failed; the
\* entry is removed only after an update failed with RemoteNotFound.
C2_FailureClassification ==
    /\ \A i \in DOMAIN trace :
          FatalFailure(trace[i]) => \A j \in (i + 1)..Len(trace) : ~IsCall(trace[j])
    /\ (/\ Calls # <<>>
        /\ FatalFailure(Calls[Len(Calls)])
        /\ \A i \in DOMAIN trace : ~NotFoundFailure(trace[i]))
          => FileEntry(cacheFile, collName) = FileEntry(startFile, collName)
    /\ (pc = "done" /\ Calls # <<>> /\ FatalFailure(Calls[Len(Calls)]))
          => trace[Len(trace)].op = "report" /\ trace[Len(trace)].status = "fail"
    /\ (FileEntry(startFile, collName).present /\ ~FileEntry(cacheFile, collName).present)
          => \E i \in DOMAIN trace : NotFoundFailure(trace[i])

\* C3: when the cache holds a uid for the name, the first remote call of
\* the sync is an update against that uid; when that update succeeds it is
\* the only remote call (no list, no create) and the cache file still holds
\* that uid afterwards, so that the same goes for every following sync.
C3_WarmCacheIdempotence ==
    WarmStart =>
        /\ Calls # <<>> => Calls[1].op = "update" /\ Calls[1].uid = StartUid
        /\ (Calls # <<>> /\ Calls[1].status = "success") =>
              /\ Len(Calls) = 1
              /\ FileEntry(cacheFile, collName) = NewEntry(collName, StartUid)
        /\ pc = "done" => Calls # <<>>

\* A finished sync that found the uid in the cache and whose update succeeded.
C3_Witness ==
    /\ pc = "done"
    /\ WarmStart
    /\ Calls = <<Event("update", StartUid, "success", NoError)>>

\* C4: when the cache maps the name to X, update(X) fails with
\* RemoteNotFound and the listing yields the match Y, the remote calls are
\* update(X), list, update(Y) and no other, and after a successful
\* update(Y) the cache file maps the name to Y.  Stated for the runs in
\* which the cache file is writable.  (A list event records the uid of the
\* summary findCollectionByName returned; a listing with exactly one match,
\* Y, is among the listings that yield it.)
C4_SelfHealSequence ==
    (/\ WarmStart
     /\ writable
     /\ Calls # <<>>
     /\ Calls[1] = Event("update", StartUid, "fail", "notfound"))
      => /\ Len(Calls) >= 2 => Calls[2].op = "list"
         /\ (/\ Len(Calls) >= 2
             /\ Calls[2].status = "success"
             /\ Calls[2].uid \notin {NoUid, StartUid}) =>
               /\ Len(Calls) >= 3 => Calls[3].op = "update" /\ Calls[3].uid = Calls[2].uid
               /\ Len(Calls) <= 3
               /\ (pc = "done" /\ Len(Calls) = 3 /\ Calls[3].status = "success") =>
                     FileEntry(cacheFile, collName) = NewEntry(collName, Calls[2].uid)

\* The remote calls of a sync that started with an empty cache and whose
\* listing had no match: the list call, then at most one create.
C5_OneCreate ==
    /\ Len(Calls) >= 2 => Calls[2].op = "create"
    /\ Len(Calls) <= 2
    /\ pc = "done" => Len(Calls) = 2

NoMatchListed == Calls # <<>> /\ Calls[1] = Event("list", NoUid, "success", NoError)

Created == Len(Calls) = 2 /\ Calls[2].op = "create" /\ Calls[2].status = "success"

\* C5 as stated: with an empty cache and a listing without a match the sync
\* issues exactly one create; after a successful create the cache file maps
\* the name to {name, uid returned}; and a sync that starts from that file
\* issues no list call and no create call.
C5_CachePopulationAsStated ==
    /\ (ColdStart /\ NoMatchListed) =>
          /\ C5_OneCreate
          /\ Created => cacheFile = Populated(Calls[2].uid)
    /\ \A u \in Uids :
          (postmanUid = NoUid /\ startFile = Populated(u)) =>
              CountOp("list") = 0 /\ CountOp("create") = 0

\* C5, amended: the cache file maps the name to {name, uid returned} after
\* a successful create provided the file could be written, and the first
\* remote call of a sync that starts from that file is an update against
\* that uid (no list call and no create call before it).
C5_CachePopulation ==
    /\ (ColdStart /\ NoMatchListed) =>
          /\ C5_OneCreate
          /\ (Created /\ writable) => cacheFile = Populated(Calls[2].uid)
    /\ \A u \in Uids :
          (postmanUid = NoUid /\ startFile = Populated(u)) =>
              /\ Calls # <<>> => Calls[1].op = "update" /\ Calls[1].uid = u
              /\ pc = "done" => Calls # <<>>

\* A finished sync that created the collection and wrote the cache.
C5_Witness ==
    /\ pc = "done"
    /\ ColdStart
    /\ NoMatchListed
    /\ Created
    /\ writable
    /\ cacheFile = Populated(Calls[2].uid)

\* C6: with an operator override the sync makes one remote call, an update
\* against the given uid, whether it succeeds or not and whatever the cache
\* holds; it makes no list, create or second update call and neither reads
\* nor writes the cache file.
C6_OverrideIsolation ==
    postmanUid # NoUid =>
        /\ \A i \in DOMAIN trace : trace[i].op \in {"update", "report"}
        /\ Len(Calls) <= 1
        /\ Calls # <<>> => Calls[1].uid = postmanUid
        /\ pc = "done" => Len(Calls) = 1
        /\ cacheFile = startFile

\* A finished override sync whose update was rejected while the cache held
\* another uid for the name.
C6_Witness ==
    /\ pc = "done"
    /\ postmanUid # NoUid
    /\ Calls # <<>>
    /\ Calls[1].status = "fail"
    /\ FileEntry(startFile, collName).present
    /\ FileEntry(startFile, collName).uid \notin {NoUid, postmanUid}

\* A cache file that is no name-to-entry mapping.
Unusable(file) == file.kind \in {"absent", "garbage", "null", "scalar"}

\* C7: with a cache file that is no usable mapping the sync raises no
\* exception and behaves as with an empty cache: its first remote call is
\* the list call.
C7_CorruptionTolerance ==
    (postmanUid = NoUid /\ Unusable(startFile)) =>
        /\ pc # "crashed"
        /\ Calls # <<>> => Calls[1].op = "list"
        /\ pc = "done" => Calls # <<>>

\* The positions of the listing whose normalized name is that of the
\* collection.
MatchIdx ==
    {i \in DOMAIN lastListing :
        /\ lastListing[i].name # NoName
        /\ Normalize(lastListing[i].name) = Normalize(collName)}

\* No match is newer than the one at i, and none before it is as new.
Newest(i) ==
    \A j \in MatchIdx :
        /\ lastListing[j].updatedAt <= lastListing[i].updatedAt
        /\ j < i => lastListing[j].updatedAt < lastListing[i].updatedAt

\* C8: when two or more summaries of the listing match the normalized
\* name, findCollectionByName returns the one with the greatest updatedAt,
\* the first of them in the listing among equals, and the sync goes on to
\* update that uid instead of creating.
C8_AmbiguityTieBreak ==
    /\ (pc = "decide" /\ Cardinality(MatchIdx) >= 2) =>
          /\ \E i \in MatchIdx :
                /\ Newest(i)
                /\ remoteCollection = [present |-> TRUE, name |-> lastListing[i].name,
                                       uid |-> lastListing[i].uid]
          /\ trace[Len(trace)] = Event("list", remoteCollection.uid, "success", NoError)
    /\ \A k \in 1..(Len(Calls) - 1) :
          (Calls[k].op = "list" /\ Calls[k].uid # NoUid) =>
              Calls[k + 1].op = "update" /\ Calls[k + 1].uid = Calls[k].uid

\* Two matches, the newer one second in the listing, and it is the one
\* returned.
C8_Witness ==
    /\ pc = "decide"
    /\ Len(lastListing) = 2
    /\ MatchIdx = {1, 2}
    /\ lastListing[1].updatedAt < lastListing[2].updatedAt
    /\ lastListing[1].uid # lastListing[2].uid
    /\ remoteCollection.uid = lastListing[2].uid

\* C9: a finished sync has reported one outcome, that of its last create or
\* update: success with the uid of the response, or failure.  (No failed
\* remote call throws: each returns a response with status fail.)
C9_StructuredOutcome ==
    pc = "done" =>
        /\ Len(Reports) = 1
        /\ Calls # <<>>
        /\ Reports[1].status = Calls[Len(Calls)].status
        /\ Calls[Len(Calls)].status = "success" => Reports[1].uid = Calls[Len(Calls)].uid

\* C10: a finished sync without operator override has read the cache file
\* once, first of all, and written it once, after its last remote call.
C10_SingleLoadSingleSave ==
    (postmanUid = NoUid /\ pc = "done") =>
        /\ CountOp("read") = 1
        /\ trace[1].op = "read"
        /\ CountOp("write") = 1
        /\ \A i, j \in DOMAIN trace :
              (trace[i].op = "write" /\ IsCall(trace[j])) => j < i

\* C11: when the cache file cannot be written, a sync whose update against
\* the cached uid failed with RemoteNotFound goes on as it does with a
\* writable file: its next remote call is a fresh list call, and every
\* later update targets what a list call just returned, never the stale
\* uid read again from the cache.
C11_SaveFailureHarmless ==
    (/\ WarmStart
     /\ ~writable
     /\ Calls # <<>>
     /\ NotFoundFailure(Calls[1]))
      => /\ Len(Calls) >= 2 => Calls[2].op = "list"
         /\ \A i \in 2..Len(Calls) :
               Calls[i].op = "update" =>
                   Calls[i - 1].op = "list" /\ Calls[i].uid = Calls[i - 1].uid

\* The lower-case letter of a letter of the alphabet of the names.
LowerOf(c) == IF c = "B" THEN "b" ELSE IF c = "I" THEN "i" ELSE IF c = "O" THEN "o" ELSE c

\* A name without its whitespace and in lower case, character by character.
RECURSIVE Folded(_)
Folded(s) ==
    IF s = <<>> THEN <<>>
    ELSE IF Head(s) \in {" ", "\t", "\n"} THEN Folded(Tail(s))
    ELSE <<LowerOf(Head(s))>> \o Folded(Tail(s))

\* The summaries of the listing whose name equals the collection name after
\* removing all whitespace and lower-casing.
FoldedMatchIdx ==
    {i \in DOMAIN lastListing : Folded(lastListing[i].name) = Folded(collName)}

\* The list call has just returned successfully.
JustListed ==
    /\ pc = "decide"
    /\ trace # <<>>
    /\ trace[Len(trace)].op = "list"
    /\ trace[Len(trace)].status = "success"

\* The cache file of the run holds no entry under the collection name but
\* one, with a uid, under a key that differs from it only in case or
\* whitespace.
VariantKeyOnly ==
    /\ postmanUid = NoUid
    /\ startFile.kind = "object"
    /\ ~FileEntry(startFile, collName).present
    /\ \E k \in CacheKeys \ {collName} :
          /\ Folded(k) = Folded(collName)
          /\ FileEntry(startFile, k).present
          /\ FileEntry(startFile, k).uid # NoUid

\* C12: findCollectionByName returns a summary of the listing exactly when
\* the listing holds a summary whose name equals the collection name after
\* removing all whitespace and lower-casing, and the summary returned is
\* such a one; the cache is consulted with the name as given, so that a
\* cache entry under a key that differs only in case or whitespace is a
\* miss and the first remote call is the list call.
C12_NameMatching ==
    /\ JustListed =>
          /\ remoteCollection.uid # NoUid <=> FoldedMatchIdx # {}
          /\ remoteCollection.uid # NoUid =>
                \E i \in FoldedMatchIdx :
                    /\ remoteCollection.uid = lastListing[i].uid
                    /\ remoteCollection.name = lastListing[i].name
    /\ VariantKeyOnly =>
          /\ Calls # <<>> => Calls[1].op = "list"
          /\ pc = "done" => Calls # <<>>

\* The cache holds a uid under the other spelling only, the sync has listed
\* the collections, and the listing holds a summary under that spelling
\* and one under another name; the first is the one returned.
C12_Witness ==
    /\ JustListed
    /\ VariantKeyOnly
    /\ Len(lastListing) = 2
    /\ Cardinality(FoldedMatchIdx) = 1
    /\ \E i \in FoldedMatchIdx :
          /\ lastListing[i].name # collName
          /\ remoteCollection.uid = lastListing[i].uid

\* C13: in a sync without operator override whose cache entry for the name,
\* if there is one, has a uid, a create call comes right after a list call
\* of the same sync that succeeded and found no match for the name: never
\* first, never after an update, never after a list call that failed or
\* that found a match.
C13_CreateOnlyAfterEmptyListing ==
    (/\ postmanUid = NoUid
     /\ FileEntry(startFile, collName).present => FileEntry(startFile, collName).uid # NoUid)
      => \A i \in DOMAIN Calls :
            Calls[i].op = "create" =>
                /\ i > 1
                /\ Calls[i - 1] = Event("list", NoUid, "success", NoError)

\* The keys of the other names under which the cache file of the run held
\* an entry.
OtherKeysHeld == {k \in CacheKeys \ {collName} : FileEntry(startFile, k).present}

\* C14: when the cache file of a sync held a name-to-entry mapping, the
\* file holds under every key other than the collection name what it held
\* when the sync started, at every point of the sync, whatever the remote
\* answers and however often the sync starts over.
C14_FrameOnOtherNames ==
    startFile.kind = "object" =>
        /\ cacheFile.kind = "object"
        /\ \A k \in CacheKeys \ {collName} :
              FileEntry(cacheFile, k) = FileEntry(startFile, k)

\* A finished sync that started over, wrote another entry for its name than
\* the file held, and whose file held entries of two other keys.
C14_Witness ==
    /\ pc = "done"
    /\ startFile.kind = "object"
    /\ CountOp("read") >= 2
    /\ FileEntry(startFile, collName).present
    /\ FileEntry(cacheFile, collName) # FileEntry(startFile, collName)
    /\ Cardinality(OtherKeysHeld) = 2

\* The cache file holds a mapping, or does not exist, and each of its
\* entries is stored under its own name and has a uid.
WellFormed(file) ==
    /\ file.kind \in {"absent", "object"}
    /\ \A k \in CacheKeys :
          FileEntry(file, k).present =>
              /\ k \in CollNames
              /\ FileEntry(file, k).name = k
              /\ FileEntry(file, k).uid # NoUid

\* C15 as stated: after any sequence of syncs that started from an empty
\* cache, each entry of the cache file is stored under its own name and has
\* a uid, the one that the most recent successful create or update for
\* that name returned.
C15_WellFormedAsStated ==
    /\ WellFormed(cacheFile)
    /\ \A k \in CollNames :
          FileEntry(cacheFile, k).present =>
              FileEntry(cacheFile, k).uid = lastReturned[k].any

\* C15, amended: after any sequence of syncs that started from an empty
\* cache, each entry of the cache file is stored under its own name and has
\* a uid, the one that the most recent successful create or update for
\* that name returned among those of the syncs without operator override.
C15_CacheWellFormed ==
    /\ WellFormed(cacheFile)
    /\ \A k \in CollNames :
          FileEntry(cacheFile, k).present =>
              FileEntry(cacheFile, k).uid = lastReturned[k].assisted

\* After several syncs the cache file holds an entry for each of the two
\* collection names, and for the name of the sync just finished an update
\* with operator override has since returned another uid than the entry's.
C15_Witness ==
    /\ pc = "done"
    /\ \A k \in CollNames : FileEntry(cacheFile, k).present
    /\ lastReturned[collName].any # lastReturned[collName].assisted
    /\ FileEntry(cacheFile, collName).uid = lastReturned[collName].assisted
====
